---------------------------- MODULE Spec2Model ----------------------------
(***************************************************************************)
(* A model of compute_std.py (the log parser and summary statistics) and   *)
(* of the plotting loop shared by the two chart scripts.                   *)
(*                                                                         *)
(* Text is modelled as sequences of one-character strings, so that         *)
(* str.strip, str.startswith, str.split and float() are computed on the    *)
(* characters as Python computes them.  Samples are the integers the       *)
(* decimal fields denote; the statistics are exact rationals               *)
(* [num |-> a, den |-> b], and the standard deviation is carried as its    *)
(* square (the sample variance), or as NaN.                                *)
(***************************************************************************)
EXTENDS Integers, Sequences, FiniteSets, TLC

\* ------------------------------------------------------------------ bounds

\* Longest input file, in lines, of a single run of main().
MaxLines == 3
\* Largest number of command-line arguments after the script name.
MaxArgs == 2
\* Longest input file of the two interleaved invocations.
ConcMaxLines == 2

\* --------------------------------------------------------- str operations

Whitespace == {" ", "\t", "\n", "\r"}

Digits == {"0", "1", "2", "3", "4", "5", "6", "7", "8", "9"}

RECURSIVE LStrip(_)
\* str.lstrip(): drop the leading whitespace characters.
LStrip(s) ==
    IF s # <<>> /\ Head(s) \in Whitespace THEN LStrip(Tail(s)) ELSE s

RECURSIVE RStrip(_)
\* str.rstrip(): drop the trailing whitespace characters.
RStrip(s) ==
    IF s # <<>> /\ s[Len(s)] \in Whitespace
    THEN RStrip(SubSeq(s, 1, Len(s) - 1))
    ELSE s

\* str.strip()
Strip(s) == RStrip(LStrip(s))

\* str.startswith(prefix)
StartsWith(s, prefix) ==
    /\ Len(s) >= Len(prefix)
    /\ SubSeq(s, 1, Len(prefix)) = prefix

RECURSIVE SplitFrom(_, _, _)
\* The fields of s from position i on, cur being the field under way.
SplitFrom(s, i, cur) ==
    IF i > Len(s) THEN <<cur>>
    ELSE IF s[i] = "," THEN <<cur>> \o SplitFrom(s, i + 1, <<>>)
    ELSE SplitFrom(s, i + 1, Append(cur, s[i]))

\* str.split(","): the fields between the commas, empty fields kept.
Split(s) == SplitFrom(s, 1, <<>>)

DigitValue(c) ==
    CASE c = "0" -> 0 [] c = "1" -> 1 [] c = "2" -> 2 [] c = "3" -> 3
      [] c = "4" -> 4 [] c = "5" -> 5 [] c = "6" -> 6 [] c = "7" -> 7
      [] c = "8" -> 8 [] c = "9" -> 9

RECURSIVE DecimalValue(_)
\* The number a non-empty sequence of digits denotes.
DecimalValue(ds) ==
    IF ds = <<>> THEN 0
    ELSE 10 * DecimalValue(SubSeq(ds, 1, Len(ds) - 1)) + DigitValue(ds[Len(ds)])

AllDigits(s) == s # <<>> /\ \A i \in 1..Len(s) : s[i] \in Digits

\* float(s) on the texts of the model (digits, a sign, whitespace, letters
\* other than those of inf and nan, no point and no exponent): surrounding
\* whitespace is ignored, one sign is accepted, and the rest must be digits.
\* The result is the number, or the ValueError float() raises.
Float(s) ==
    LET t == Strip(s)
        signed == t # <<>> /\ Head(t) \in {"+", "-"}
        body == IF signed THEN Tail(t) ELSE t
    IN  IF ~AllDigits(body) THEN [exc |-> "ValueError", value |-> 0]
        ELSE IF signed /\ Head(t) = "-"
             THEN [exc |-> "none", value |-> 0 - DecimalValue(body)]
        ELSE [exc |-> "none", value |-> DecimalValue(body)]

\* ------------------------------------------- read_batch_readiness_times

Iteration == <<"I", "t", "e", "r", "a", "t", "i", "o", "n">>

AverageBatch == <<"A", "v", "e", "r", "a", "g", "e", " ", "B", "a", "t", "c", "h">>

FinalAverage == <<"F", "i", "n", "a", "l", " ", "A", "v", "e", "r", "a", "g", "e">>

\* A try statement whose handler catches nothing.
Handled_Nothing == {}

\* The exceptions the handler of the try statement catches (line 31).
Handled == {"ValueError"}

\* A skip test that misses the Final Average footer.
IsSkipped_NoFinalAverage(line) ==
    \/ line = <<>>
    \/ StartsWith(line, Iteration)
    \/ StartsWith(line, AverageBatch)

\* Lines 15-20: the stripped line is empty, an iteration header or a summary
\* line.
IsSkipped(line) ==
    \/ line = <<>> \/ StartsWith(line, Iteration)
    \/ StartsWith(line, AverageBatch) \/ StartsWith(line, FinalAverage)

\* The field before the batch readiness time.
BatchTimeField_OneBefore(parts) == parts[3]

\* parts[3]: the field at index 3, the fourth.
BatchTimeField(parts) == parts[4]

\* One pass of the body of `for line in f` on the raw line, newline included:
\* the list of values after it, and the exception that leaves the body.
LoopBody(vals, raw) ==
    LET line == Strip(raw)
        parts == Split(line)
        skip == [values |-> vals, exc |-> "none"]
    IN  IF IsSkipped(line) THEN skip
        ELSE IF Len(parts) < 4 THEN skip
        ELSE LET batch_time == Float(BatchTimeField(parts))
             IN  IF batch_time.exc = "none"
                 THEN [values |-> Append(vals, batch_time.value), exc |-> "none"]
                 ELSE IF batch_time.exc \in Handled THEN skip
                 ELSE [values |-> vals, exc |-> batch_time.exc]

\* The line the file iterator yields for a line of the file: the text and
\* its newline.
Yielded(text) == Append(text, "\n")

RECURSIVE ReadFrom(_, _)
ReadFrom(lines, vals) ==
    IF lines = <<>> THEN vals
    ELSE ReadFrom(Tail(lines), LoopBody(vals, Yielded(Head(lines))).values)

\* read_batch_readiness_times on a decodable file, run from start to return:
\* the loop body folded over the lines from an empty list.
read_batch_readiness_times(lines) == ReadFrom(lines, <<>>)

\* ------------------------------------------------------------ statistics

RECURSIVE Sum(_)
Sum(vals) == IF vals = <<>> THEN 0 ELSE Head(vals) + Sum(Tail(vals))

\* np.mean(values): the sum over the count, as a fraction; 0/0 is NaN.
Mean(vals) ==
    IF Len(vals) = 0 THEN [nan |-> TRUE, num |-> 0, den |-> 1]
    ELSE [nan |-> FALSE, num |-> Sum(vals), den |-> Len(vals)]

RECURSIVE SumSqDev(_, _, _)
\* The sum over vals of (n*x - s)^2: n^2 times the sum of the squared
\* deviations of the values from the mean s/n.
SumSqDev(vals, n, s) ==
    IF vals = <<>> THEN 0
    ELSE (n * Head(vals) - s) * (n * Head(vals) - s) + SumSqDev(Tail(vals), n, s)

\* The delta degrees of freedom main() passes to np.std.
ddof == 1

\* The population variance: the divisor is n whatever d is.
StdSquared_Population(vals, d) ==
    LET n == Len(vals)
    IN  IF n = 0 THEN [nan |-> TRUE, num |-> 0, den |-> 1]
        ELSE [nan |-> FALSE,
              num |-> SumSqDev(vals, n, Sum(vals)),
              den |-> n * n * n]

\* A variance that guards its divisor against zero.
StdSquared_Guarded(vals, d) ==
    LET n == Len(vals)
        rcount == IF n - d > 1 THEN n - d ELSE 1
    IN  [nan |-> FALSE,
         num |-> SumSqDev(vals, n, Sum(vals)),
         den |-> n * n * rcount]

\* The square of np.std(values, ddof=d): the squared deviations from the mean,
\* summed and divided by max(n - d, 0); a zero divisor gives NaN.
StdSquared(vals, d) ==
    LET n == Len(vals)
        rcount == IF n - d > 0 THEN n - d ELSE 0
    IN  IF rcount = 0 THEN [nan |-> TRUE, num |-> 0, den |-> 1]
        ELSE [nan |-> FALSE,
              num |-> SumSqDev(vals, n, Sum(vals)),
              den |-> n * n * rcount]

RECURSIVE Min(_)
\* np.min(values) of a non-empty array
Min(vals) ==
    IF Len(vals) = 1 THEN Head(vals)
    ELSE LET m == Min(Tail(vals)) IN IF Head(vals) < m THEN Head(vals) ELSE m

RECURSIVE Max(_)
\* np.max(values) of a non-empty array
Max(vals) ==
    IF Len(vals) = 1 THEN Head(vals)
    ELSE LET m == Max(Tail(vals)) IN IF Head(vals) > m THEN Head(vals) ELSE m

\* --------------------------------------------------------------- printing

RECURSIVE SqrtBetween(_, _, _)
\* The largest k in lo..hi with k*k <= q, for lo*lo <= q.
SqrtBetween(q, lo, hi) ==
    IF lo = hi THEN lo
    ELSE LET mid == (lo + hi + 1) \div 2
         IN  IF mid * mid <= q THEN SqrtBetween(q, mid, hi)
             ELSE SqrtBetween(q, lo, mid - 1)

\* The integer part of the square root of q >= 0.
ISqrt(q) == SqrtBetween(q, 0, 46340)

\* f"{x:.2f}" of the fraction x: the nearest number of hundredths (no
\* fraction of the model lies halfway between two), or nan.
Fmt2(x) ==
    IF x.nan THEN [nan |-> TRUE, hundredths |-> 0]
    ELSE [nan |-> FALSE,
          hundredths |-> (200 * x.num + x.den) \div (2 * x.den)]

\* f"{std:.2f}" of the standard deviation whose square is sq: the nearest
\* number of hundredths to the root, or nan.
Fmt2Root(sq) ==
    IF sq.nan THEN [nan |-> TRUE, hundredths |-> 0]
    ELSE [nan |-> FALSE,
          hundredths |-> (ISqrt((40000 * sq.num) \div sq.den) + 1) \div 2]

\* An integer sample as a fraction.
Frac(v) == [nan |-> FALSE, num |-> v, den |-> 1]

\* ------------------------------------------------------------ input files

\* a data row: sample 50
RowA == <<"1", ",", "1", "0", "0", ",", "1", "0", ",", "5", "0">>

\* a data row: sample 70
RowB == <<"2", ",", "2", "0", "0", ",", "2", "0", ",", "7", "0">>

\* an empty line
Blank == <<>>

\* an iteration header
IterationHeader == <<"I", "t", "e", "r", "a", "t", "i", "o", "n", " ", "1">>

\* Iteration, then four fields with a number at index 3
IterationRow == <<"I", "t", "e", "r", "a", "t", "i", "o", "n", ",", "1", ",", "2", ",", "6", "0">>

\* Average Batch, then four fields with a number at index 3
AverageBatchRow == <<"A", "v", "e", "r", "a", "g", "e", " ", "B", "a", "t", "c", "h", ",", "1", ",", "2", ",", "6", "0">>

\* Final Average, then four fields with a number at index 3
FinalAverageRow == <<"F", "i", "n", "a", "l", " ", "A", "v", "e", "r", "a", "g", "e", ",", "1", ",", "2", ",", "6", "0">>

\* three fields
ShortRow == <<"1", ",", "2", ",", "3">>

\* four fields, the one at index 3 no number
NonNumericRow == <<"1", ",", "2", ",", "3", ",", "a", "b", "c">>

\* five fields inside whitespace: sample 64
PaddedRow == <<" ", "3", ",", "3", "0", "0", ",", "3", "0", ",", "6", "4", ",", "9", " ">>

\* an Iteration line after leading whitespace
IndentedIterationRow == <<" ", " ", "I", "t", "e", "r", "a", "t", "i", "o", "n", ",", "7", ",", "7", ",", "5", "2">>

\* no skip prefix (lower case), a padded field: sample 56
LowerCaseRow == <<"i", "t", "e", "r", "a", "t", "i", "o", "n", ",", "1", ",", "2", ",", " ", "5", "6">>

\* The lines input files are made of.
LineSet ==
    {RowA, RowB, Blank, IterationHeader, IterationRow, AverageBatchRow,
     FinalAverageRow, ShortRow, NonNumericRow, PaddedRow, IndentedIterationRow,
     LowerCaseRow}

\* The lines of the files the two interleaved invocations read.
ConcLineSet == {RowA, RowB, NonNumericRow}

\* A text file of the given lines.
TextFile(lines) == [decodable |-> TRUE, lines |-> lines]

\* A file whose bytes are no text in the locale's encoding: reading it raises.
BinaryFile == [decodable |-> FALSE, lines |-> <<>>]

\* The text files of at most n lines drawn from ls, and the binary file.
FilesUpTo(ls, n) ==
    {TextFile(l) : l \in UNION {[1..k -> ls] : k \in 0..n}} \cup {BinaryFile}

\* Paths that may name a file, and a path that names none.
MetricsPath == "metrics.txt"

OtherPath == "other.txt"

AbsentPath == "absent.txt"

\* The argument lists of at most n arguments drawn from paths.
ArgLists(paths, n) == UNION {[1..k -> paths] : k \in 0..n}

\* ------------------------------------------------------------------ state

VARIABLES
    disk,      \* the files that exist: path -> file
    argv,      \* per run of main(): sys.argv[1:]
    pc,        \* per run: where control is
    handle,    \* per run: the file object f ("none", "open", "closed")
    idx,       \* per run: the lines the iterator has yielded
    values,    \* per run: the list `values` of read_batch_readiness_times
    stats,     \* per run: <<>>, or <<the statistics main() computed>>
    out,       \* per run: the lines printed to standard output
    err,       \* per run: the exception whose traceback went to standard error
    exit,      \* per run: <<>>, or <<the exit status>>
    events,    \* per run: the calls made so far, in order
    script,    \* the chart script that runs ("none" outside the chart runs)
    ppc,       \* chart script: where control is
    fig,       \* chart script: idx + 1, the figure under way
    plat,      \* chart script: j + 1, the platform under way
    gathered,  \* chart script: the lists means, mins, maxs, stds
    bars,      \* chart script: the bars drawn on the figure under way
    ymax_candidate,      \* chart script: ymax_candidate
    saved      \* chart script: the figures saved

mainVars == <<disk, argv, pc, handle, idx, values, stats, out, err, exit, events>>

plotVars == <<script, ppc, fig, plat, gathered, bars, ymax_candidate, saved>>

vars == <<mainVars, plotVars>>

\* The runs of main() under way.
Runs == DOMAIN pc

\* ------------------------------------------------------------------ main()

\* A test that lets extra arguments through.
ArityOk_AtLeastOne(args) == Len(args) + 1 >= 2

\* len(sys.argv) == 2: the script name and one argument.
ArityOk(args) == Len(args) + 1 = 2

\* A test that also rejects a single sample.
NoValues_AtMostOne(vals) == Len(vals) <= 1

\* len(values) == 0
NoValues(vals) == Len(vals) = 0

\* One list shared by every invocation (a module-level list, or a mutable
\* default argument).
StoreValues_Shared(all, p, new) == [q \in DOMAIN all |-> new]

\* The list `values` is a local of the invocation: binding or appending to it
\* changes the list of that invocation alone.
StoreValues(all, p, new) == [all EXCEPT ![p] = new]

UsageLine == [text |-> "Usage: python3 compute_std.py <metrics_file.txt>"]

NoDataLine == [text |-> "No valid data found in file."]

\* The six lines main() prints for the statistics st of the samples vals.
ResultLines(vals, st) ==
    << [text |-> "----- Results -----"],
       [text |-> "Values:", list |-> vals],
       [text |-> "Mean:", number |-> Fmt2(st.mean), unit |-> "ms"],
       [text |-> "Std Dev:", number |-> Fmt2Root(st.stdsq), unit |-> "ms"],
       [text |-> "Min:", number |-> Fmt2(Frac(st.vmin)), unit |-> "ms"],
       [text |-> "Max:", number |-> Fmt2(Frac(st.vmax)), unit |-> "ms"] >>

\* The process ends with the given status; an uncaught exception ends it
\* with status 1 after its traceback.
Exits(p, status) ==
    /\ pc' = [pc EXCEPT ![p] = "exited"]
    /\ exit' = [exit EXCEPT ![p] = <<status>>]

\* Lines 37-39: the wrong number of arguments.
UsageExit(p) ==
    /\ pc[p] = "main"
    /\ ~ArityOk(argv[p])
    /\ out' = [out EXCEPT ![p] = Append(@, UsageLine)]
    /\ events' = [events EXCEPT ![p] = Append(@, "usage")]
    /\ Exits(p, 1)
    /\ UNCHANGED <<disk, argv, handle, idx, values, stats, err, plotVars>>

\* Lines 41-42 and 11-12: the call, values = [], and open() of a file that
\* exists.
Open(p) ==
    /\ pc[p] = "main"
    /\ ArityOk(argv[p])
    /\ argv[p][1] \in DOMAIN disk
    /\ values' = StoreValues(values, p, <<>>)
    /\ handle' = [handle EXCEPT ![p] = "open"]
    /\ idx' = [idx EXCEPT ![p] = 0]
    /\ events' = [events EXCEPT ![p] = Append(@, "open")]
    /\ pc' = [pc EXCEPT ![p] = "loop"]
    /\ UNCHANGED <<disk, argv, stats, out, err, exit, plotVars>>

\* Line 12: open() of a path that names no file raises, and nothing catches it.
OpenFail(p) ==
    /\ pc[p] = "main"
    /\ ArityOk(argv[p])
    /\ argv[p][1] \notin DOMAIN disk
    /\ err' = [err EXCEPT ![p] = "FileNotFoundError"]
    /\ events' = [events EXCEPT ![p] = Append(@, "open_failed")]
    /\ Exits(p, 1)
    /\ UNCHANGED <<disk, argv, handle, idx, values, stats, out, plotVars>>

\* Lines 13-32: the iterator yields the next line and the body runs on it.
\* An exception that leaves the body leaves the with statement, which closes
\* the file, and then main().
ReadLine(p) ==
    /\ pc[p] = "loop"
    /\ disk[argv[p][1]].decodable
    /\ idx[p] < Len(disk[argv[p][1]].lines)
    /\ LET r == LoopBody(values[p], Yielded(disk[argv[p][1]].lines[idx[p] + 1]))
       IN  /\ idx' = [idx EXCEPT ![p] = @ + 1]
           /\ values' = StoreValues(values, p, r.values)
           /\ IF r.exc = "none"
              THEN /\ events' = [events EXCEPT ![p] = Append(@, "line")]
                   /\ UNCHANGED <<pc, handle, err, exit>>
              ELSE /\ events' = [events EXCEPT ![p] = @ \o <<"line", "close">>]
                   /\ handle' = [handle EXCEPT ![p] = "closed"]
                   /\ err' = [err EXCEPT ![p] = r.exc]
                   /\ Exits(p, 1)
    /\ UNCHANGED <<disk, argv, stats, out, plotVars>>

\* Line 13: the iterator cannot decode the file and raises; the with
\* statement closes the file and nothing catches the exception.
DecodeError(p) ==
    /\ pc[p] = "loop"
    /\ ~disk[argv[p][1]].decodable
    /\ handle' = [handle EXCEPT ![p] = "closed"]
    /\ err' = [err EXCEPT ![p] = "UnicodeDecodeError"]
    /\ events' = [events EXCEPT ![p] = Append(@, "close")]
    /\ Exits(p, 1)
    /\ UNCHANGED <<disk, argv, idx, values, stats, out, plotVars>>

\* A reader that returns without closing the file (open() outside a with
\* statement).
Return_Leak(p) ==
    /\ pc[p] = "loop"
    /\ disk[argv[p][1]].decodable
    /\ idx[p] = Len(disk[argv[p][1]].lines)
    /\ pc' = [pc EXCEPT ![p] = "returned"]
    /\ UNCHANGED <<disk, argv, handle, events, idx, values, stats, out, err, exit,
                   plotVars>>

\* Lines 13, 12 and 34: the iterator is exhausted, the with statement closes
\* the file and the values are returned to main().
Return(p) ==
    /\ pc[p] = "loop"
    /\ disk[argv[p][1]].decodable
    /\ idx[p] = Len(disk[argv[p][1]].lines)
    /\ handle' = [handle EXCEPT ![p] = "closed"]
    /\ events' = [events EXCEPT ![p] = Append(@, "close")]
    /\ pc' = [pc EXCEPT ![p] = "returned"]
    /\ UNCHANGED <<disk, argv, idx, values, stats, out, err, exit, plotVars>>

\* Lines 44-46: no sample.
NoData(p) ==
    /\ pc[p] = "returned"
    /\ NoValues(values[p])
    /\ out' = [out EXCEPT ![p] = Append(@, NoDataLine)]
    /\ Exits(p, 1)
    /\ UNCHANGED <<disk, argv, handle, idx, values, stats, err, events, plotVars>>

\* Lines 48-51: the four statistics.
Compute(p) ==
    /\ pc[p] = "returned"
    /\ ~NoValues(values[p])
    /\ stats' = [stats EXCEPT ![p] =
                   << [mean |-> Mean(values[p]),
                       stdsq |-> StdSquared(values[p], ddof),
                       vmin |-> Min(values[p]),
                       vmax |-> Max(values[p])] >>]
    /\ events' = [events EXCEPT ![p] = Append(@, "compute")]
    /\ pc' = [pc EXCEPT ![p] = "computed"]
    /\ UNCHANGED <<disk, argv, handle, idx, values, out, err, exit, plotVars>>

\* Lines 53-58: the results are printed and main() returns.
PrintResults(p) ==
    /\ pc[p] = "computed"
    /\ out' = [out EXCEPT ![p] = @ \o ResultLines(values[p], stats[p][1])]
    /\ events' = [events EXCEPT ![p] = Append(@, "print")]
    /\ Exits(p, 0)
    /\ UNCHANGED <<disk, argv, handle, idx, values, stats, err, plotVars>>

\* The chart scripts do not run.
NoPlot ==
    /\ script = "none"
    /\ ppc = "off"
    /\ fig = 0
    /\ plat = 0
    /\ gathered = <<>>
    /\ bars = <<>>
    /\ ymax_candidate = 0
    /\ saved = <<>>

\* Runs of main() with the given argument lists over the given files. A file
\* no run names is never opened, and stays empty.
InitMain(runs, arglists, paths, files) ==
    /\ argv \in [runs -> arglists]
    /\ disk \in [paths -> files]
    /\ \A f \in paths :
          (\A p \in runs : argv[p] # <<f>>) => disk[f] = TextFile(<<>>)
    /\ pc = [p \in runs |-> "main"]
    /\ handle = [p \in runs |-> "none"]
    /\ idx = [p \in runs |-> 0]
    /\ values = [p \in runs |-> <<>>]
    /\ stats = [p \in runs |-> <<>>]
    /\ out = [p \in runs |-> <<>>]
    /\ err = [p \in runs |-> "none"]
    /\ exit = [p \in runs |-> <<>>]
    /\ events = [p \in runs |-> <<>>]

\* One run of main().
Init ==
    /\ InitMain({1}, ArgLists({MetricsPath, AbsentPath}, MaxArgs), {MetricsPath},
                FilesUpTo(LineSet, MaxLines))
    /\ NoPlot

Next ==
    \/ \E p \in Runs : UsageExit(p)
    \/ \E p \in Runs : Open(p)
    \/ \E p \in Runs : OpenFail(p)
    \/ \E p \in Runs : ReadLine(p)
    \/ \E p \in Runs : DecodeError(p)
    \/ \E p \in Runs : Return(p)
    \/ \E p \in Runs : NoData(p)
    \/ \E p \in Runs : Compute(p)
    \/ \E p \in Runs : PrintResults(p)

Spec == Init /\ [][Next]_vars

\* ----------------------------------------------------- the chart scripts

pod_counts == <<10, 50, 100, 150>>

\* The tables' entry of a use case with no measurements yet.
Zeros ==
    [mean |-> <<0, 0, 0, 0>>, min |-> <<0, 0, 0, 0>>,
     max |-> <<0, 0, 0, 0>>, std |-> <<0, 0, 0, 0>>]

\* pod-readiness-codeco-all-in-one-stdiv.py: data[UC][platform][key][idx]
data ==
    [ UC1 |-> [K8s |-> Zeros, CODECO |-> Zeros],
      UC2 |-> [K8s |-> Zeros, CODECO |-> Zeros],
      UC3 |-> [K8s |-> Zeros, CODECO |-> Zeros],
      UC4 |-> [K8s |-> Zeros, CODECO |-> Zeros],
      UC5 |-> [K8s |-> Zeros, CODECO |-> Zeros],
      UC6 |-> [K8s |-> Zeros, CODECO |-> Zeros],
      UC7 |-> [K8s |-> Zeros, CODECO |-> Zeros],
      UC8 |-> [K8s |-> Zeros, CODECO |-> Zeros],
      UC9 |->
          [ K8s |->
            [ mean |-> <<3000, 9842, 18503, 27634>>,
              min |-> <<2877, 9369, 18277, 27533>>,
              max |-> <<3165, 10180, 19111, 27740>>,
              std |-> <<99, 287, 308, 84>> ],
            CODECO |->
            [ mean |-> <<3120, 11357, 21507, 33341>>,
              min |-> <<3029, 10734, 21028, 33209>>,
              max |-> <<3324, 11607, 21899, 33469>>,
              std |-> <<114, 318, 379, 93>> ] ] ]

\* pod-delete-codeco-all-in-one-stdiv.py: delete_data[UC][platform][key][idx]
delete_data ==
    [ UC1 |-> [K8s |-> Zeros, CODECO |-> Zeros],
      UC2 |-> [K8s |-> Zeros, CODECO |-> Zeros],
      UC3 |-> [K8s |-> Zeros, CODECO |-> Zeros],
      UC4 |-> [K8s |-> Zeros, CODECO |-> Zeros],
      UC5 |-> [K8s |-> Zeros, CODECO |-> Zeros],
      UC6 |-> [K8s |-> Zeros, CODECO |-> Zeros],
      UC7 |-> [K8s |-> Zeros, CODECO |-> Zeros],
      UC8 |-> [K8s |-> Zeros, CODECO |-> Zeros],
      UC9 |->
          [ K8s |->
            [ mean |-> <<2113, 4470, 7620, 11446>>,
              min |-> <<2025, 4157, 7411, 10963>>,
              max |-> <<2250, 4843, 7803, 12202>>,
              std |-> <<106, 251, 168, 414>> ],
            CODECO |->
            [ mean |-> <<2121, 4479, 8116, 12008>>,
              min |-> <<2017, 4263, 7857, 11502>>,
              max |-> <<2249, 4779, 8522, 12529>>,
              std |-> <<82, 181, 284, 432>> ] ] ]

Scripts == {"readiness", "delete"}

\* The table of the script.
Table(sc) == IF sc = "readiness" THEN data ELSE delete_data

\* The sorted keys of the table.
ucs == <<"UC1", "UC2", "UC3", "UC4", "UC5", "UC6", "UC7", "UC8", "UC9">>

\* The platforms, in the order of the loop.
Platforms == <<"K8s", "CODECO">>

\* np.clip(x, lo, None)
Clip(x, lo) == IF x < lo THEN lo ELSE x

\* The operands of the lower extent exchanged.
Lower_Swapped(means, mins) ==
    [i \in 1..Len(means) |-> Clip(mins[i] - means[i], 0)]

\* lower = np.clip(means - mins, 0, None)
Lower(means, mins) == [i \in 1..Len(means) |-> Clip(means[i] - mins[i], 0)]

\* upper = np.clip(maxs - means, 0, None)
Upper(means, maxs) == [i \in 1..Len(means) |-> Clip(maxs[i] - means[i], 0)]

RECURSIVE ArrayMax(_)
\* np.max(maxs)
ArrayMax(a) ==
    IF Len(a) = 1 THEN Head(a)
    ELSE LET m == ArrayMax(Tail(a)) IN IF Head(a) > m THEN Head(a) ELSE m

\* means = [], mins = [], maxs = [], stds = []
EmptyLists == [means |-> <<>>, mins |-> <<>>, maxs |-> <<>>, stds |-> <<>>]

\* Lines 174-180: a new figure; lines 182-186: the first platform's lists.
NewFigure ==
    /\ ppc = "figure"
    /\ bars' = <<>>
    /\ ymax_candidate' = 0
    /\ plat' = 1
    /\ gathered' = EmptyLists
    /\ ppc' = "gather"
    /\ UNCHANGED <<script, fig, saved, mainVars>>

\* Lines 188-192: one pass of `for uc in ucs`.
GatherUC ==
    /\ ppc = "gather"
    /\ Len(gathered.means) < Len(ucs)
    /\ LET e == Table(script)[ucs[Len(gathered.means) + 1]][Platforms[plat]]
       IN  gathered' = [means |-> Append(gathered.means, e.mean[fig]),
                        mins |-> Append(gathered.mins, e.min[fig]),
                        maxs |-> Append(gathered.maxs, e.max[fig]),
                        stds |-> Append(gathered.stds, e.std[fig])]
    /\ UNCHANGED <<script, ppc, fig, plat, bars, ymax_candidate, saved, mainVars>>

\* Lines 194-244: the error bars, the platform's bars with their labels and
\* ymax_candidate; then the next platform's empty lists, or the end of the
\* loop over the platforms.
DrawBars ==
    /\ ppc = "gather"
    /\ Len(gathered.means) = Len(ucs)
    /\ LET lower == Lower(gathered.means, gathered.mins)
           upper == Upper(gathered.means, gathered.maxs)
           top == ArrayMax(gathered.maxs)
       IN  /\ bars' = bars \o
                 [i \in 1..Len(ucs) |->
                     [uc |-> ucs[i],
                      platform |-> Platforms[plat],
                      height |-> gathered.means[i],
                      yerr |-> <<lower[i], upper[i]>>,
                      label |-> gathered.stds[i]]]
           /\ ymax_candidate' = IF top > ymax_candidate THEN top ELSE ymax_candidate
    /\ IF plat < Len(Platforms)
       THEN /\ plat' = plat + 1
            /\ gathered' = EmptyLists
            /\ UNCHANGED ppc
       ELSE /\ ppc' = "save"
            /\ UNCHANGED <<plat, gathered>>
    /\ UNCHANGED <<script, fig, saved, mainVars>>

\* Lines 246-268: the axes, the limit 1.45 * ymax_candidate (in hundredths)
\* and the figure saved and closed; then the next pod count.
SaveFigure ==
    /\ ppc = "save"
    /\ saved' = Append(saved, [pod |-> pod_counts[fig],
                               bars |-> bars,
                               ylim |-> [num |-> 145 * ymax_candidate, den |-> 100]])
    /\ IF fig < Len(pod_counts)
       THEN /\ fig' = fig + 1
            /\ ppc' = "figure"
       ELSE /\ ppc' = "done"
            /\ UNCHANGED fig
    /\ bars' = <<>>
    /\ UNCHANGED <<script, plat, gathered, ymax_candidate, mainVars>>

\* One of the two chart scripts starts; main() does not run.
InitPlot ==
    /\ InitMain({}, {<<>>}, {}, {TextFile(<<>>)})
    /\ script \in Scripts
    /\ ppc = "figure"
    /\ fig = 1
    /\ plat = 0
    /\ gathered = EmptyLists
    /\ bars = <<>>
    /\ ymax_candidate = 0
    /\ saved = <<>>

NextPlot ==
    \/ NewFigure
    \/ GatherUC
    \/ DrawBars
    \/ SaveFigure

SpecPlot == InitPlot /\ [][NextPlot]_vars

\* ------------------------------------------- two interleaved invocations

\* Two runs, each with at most one argument, over two files.
InitConc ==
    /\ InitMain({1, 2}, ArgLists({MetricsPath, OtherPath, AbsentPath}, 1),
                {MetricsPath, OtherPath}, FilesUpTo(ConcLineSet, ConcMaxLines))
    /\ NoPlot

SpecConc == InitConc /\ [][Next]_vars

\* ------------------------------------------------- properties of main()

\* The file the run p names, for a run whose open() succeeded.
FileOf(p) == disk[argv[p][1]]

\* The run p has opened its file.
Opened(p) == handle[p] # "none"

\* The run p is past the return of read_batch_readiness_times.
Returned(p) ==
    /\ Opened(p)
    /\ err[p] = "none"
    /\ pc[p] \in {"returned", "computed", "exited"}

\* The lines of out that carry a number.
NumberLines(o) == {i \in 1..Len(o) : "number" \in DOMAIN o[i]}

\* C1: main() exits with status 0 exactly when one argument is given, the
\* file can be read and at least one sample is parsed, and then the
\* statistics are printed; every other run exits with status 1; with no
\* sample the only output is "No valid data found in file." and no statistic
\* is ever computed or printed.
C1_ExitStatus ==
    \A p \in Runs :
        LET oneArg == Len(argv[p]) = 1
            readable ==
                /\ oneArg
                /\ argv[p][1] \in DOMAIN disk
                /\ disk[argv[p][1]].decodable
        IN  /\ pc[p] = "exited" =>
                /\ exit[p] \in {<<0>>, <<1>>}
                /\ exit[p] = <<0>> <=> (readable /\ Len(values[p]) >= 1)
                /\ exit[p] = <<0>> =>
                      /\ stats[p] # <<>>
                      /\ Len(out[p]) = 6
                      /\ {out[p][i].text : i \in NumberLines(out[p])}
                            = {"Mean:", "Std Dev:", "Min:", "Max:"}
                /\ (readable /\ Len(values[p]) = 0) => out[p] = <<NoDataLine>>
            /\ (readable /\ Len(read_batch_readiness_times(FileOf(p).lines)) = 0) =>
                /\ stats[p] = <<>>
                /\ NumberLines(out[p]) = {}
                /\ pc[p] \notin {"computed"}

\* A run on a file of two header lines has ended with status 1 and the
\* no-data message.
C1_Witness ==
    \E p \in Runs :
        /\ pc[p] = "exited"
        /\ Opened(p)
        /\ FileOf(p).lines = <<IterationHeader, AverageBatchRow>>
        /\ exit[p] = <<1>>
        /\ out[p] = <<NoDataLine>>

\* C2: with an argument count other than one, main() prints the usage
\* message and exits with status 1, and no open() is ever attempted.
C2_UsageBeforeOpen ==
    \A p \in Runs :
        Len(argv[p]) # 1 =>
            /\ handle[p] = "none"
            /\ \A i \in 1..Len(events[p]) :
                  events[p][i] \notin {"open", "open_failed"}
            /\ pc[p] \in {"main", "exited"}
            /\ pc[p] = "exited" =>
                  /\ exit[p] = <<1>>
                  /\ out[p] = <<UsageLine>>
                  /\ events[p] = <<"usage">>

\* A run with two arguments, the first naming a file that exists, has ended.
C2_Witness ==
    \E p \in Runs :
        /\ Len(argv[p]) = 2
        /\ argv[p][1] \in DOMAIN disk
        /\ pc[p] = "exited"
        /\ exit[p] = <<1>>

SkipPrefixes == {Iteration, AverageBatch, FinalAverage}

\* A valid data row: stripped, the line is non-empty, starts with no skip
\* prefix, has at least 4 comma-separated fields, and its field at index 3
\* is a number.
IsValidRow(text) ==
    LET s == Strip(text)
    IN  /\ s # <<>>
        /\ \A pre \in SkipPrefixes : ~StartsWith(s, pre)
        /\ Len(Split(s)) >= 4
        /\ Float(Split(s)[4]).exc = "none"

\* The index-3 fields of the valid rows of lines, in order.
RowSamples(lines) ==
    LET rows == SelectSeq(lines, IsValidRow)
    IN  [i \in 1..Len(rows) |-> Float(Split(Strip(rows[i]))[4]).value]

\* C3: the values read so far are the index-3 fields of the valid rows among
\* the lines read so far, in file order, and nothing else; at the return every
\* line has been read.
C3_OneValuePerValidRow ==
    \A p \in Runs :
        (Opened(p) /\ FileOf(p).decodable) =>
            /\ values[p] = RowSamples(SubSeq(FileOf(p).lines, 1, idx[p]))
            /\ Returned(p) => values[p] = RowSamples(FileOf(p).lines)

\* The reader has returned from a file of a three-field row and two data rows.
C3_Witness ==
    \E p \in Runs :
        /\ Returned(p)
        /\ FileOf(p).lines = <<RowB, ShortRow, RowA>>
        /\ values[p] = <<70, 50>>

\* The line starts with one of the three skip prefixes.
HasSkipPrefix(text) == \E pre \in SkipPrefixes : StartsWith(text, pre)

\* C4: reading a line that starts with Iteration, Average Batch or Final
\* Average never adds a sample, whatever follows the prefix.
C4_SkipPrefixNeverContributes ==
    [][\A p \in Runs :
          ( /\ pc[p] = "loop"
            /\ idx'[p] = idx[p] + 1
            /\ HasSkipPrefix(FileOf(p).lines[idx'[p]]) )
          => /\ values'[p] = values[p]
             /\ pc'[p] = "loop"]_vars

\* The reader has returned no sample from the three prefixed lines that have
\* four fields and a number at index 3.
C4_Witness ==
    \E p \in Runs :
        /\ Returned(p)
        /\ FileOf(p).lines = <<IterationRow, AverageBatchRow, FinalAverageRow>>
        /\ values[p] = <<>>

\* A data line whose field at index 3 is no number.
IsNonNumericRow(text) ==
    LET s == Strip(text)
    IN  /\ s # <<>>
        /\ ~HasSkipPrefix(s)
        /\ Len(Split(s)) >= 4
        /\ Float(Split(s)[4]).exc # "none"

RECURSIVE WithoutNonNumeric(_)
\* The lines without the data lines whose field at index 3 is no number.
WithoutNonNumeric(lines) ==
    IF lines = <<>> THEN <<>>
    ELSE IF IsNonNumericRow(Head(lines)) THEN WithoutNonNumeric(Tail(lines))
    ELSE <<Head(lines)>> \o WithoutNonNumeric(Tail(lines))

\* C5: a data line whose field at index 3 is no number raises nothing out of
\* the reader and does not end the read: the reader returns what it returns
\* for the file without such lines.
C5_NonNumericSkipped ==
    \A p \in Runs :
        (Opened(p) /\ FileOf(p).decodable) =>
            /\ err[p] = "none"
            /\ pc[p] = "loop" => handle[p] = "open"
            /\ pc[p] # "loop" =>
                  /\ idx[p] = Len(FileOf(p).lines)
                  /\ values[p] = read_batch_readiness_times(WithoutNonNumeric(FileOf(p).lines))

\* The reader has returned both samples around a non-numeric row.
C5_Witness ==
    \E p \in Runs :
        /\ Returned(p)
        /\ FileOf(p).lines = <<RowA, NonNumericRow, RowB>>
        /\ values[p] = <<50, 70>>

\* The sum and the sum of the squares of vals, by position.
Total(vals) ==
    LET t[i \in 0..Len(vals)] == IF i = 0 THEN 0 ELSE t[i - 1] + vals[i]
    IN  t[Len(vals)]

TotalSquares(vals) ==
    LET t[i \in 0..Len(vals)] ==
            IF i = 0 THEN 0 ELSE t[i - 1] + vals[i] * vals[i]
    IN  t[Len(vals)]

\* C6: for n >= 2 samples, mean = sum / n; std^2 * (n - 1) = the sum of the
\* squared deviations from the mean (= sum of squares - sum^2 / n); min and
\* max are the smallest and the largest sample, equal when all samples are;
\* [50, 70] gives mean 60, std^2 200, min 50, max 70.
C6_ReferenceStatistics ==
    \A p \in Runs :
        (stats[p] # <<>> /\ Len(values[p]) >= 2) =>
            LET v == values[p]
                n == Len(v)
                st == stats[p][1]
            IN  /\ ~st.mean.nan
                /\ st.mean.num * n = Total(v) * st.mean.den
                /\ ~st.stdsq.nan
                /\ st.stdsq.num * (n - 1) * n
                      = st.stdsq.den * (n * TotalSquares(v) - Total(v) * Total(v))
                /\ \E i \in 1..n : v[i] = st.vmin
                /\ \A i \in 1..n : st.vmin <= v[i]
                /\ \E i \in 1..n : v[i] = st.vmax
                /\ \A i \in 1..n : v[i] <= st.vmax
                /\ (\A i, j \in 1..n : v[i] = v[j]) => st.vmin = st.vmax
                /\ v = <<50, 70>> =>
                      /\ st.mean.num = 60 * st.mean.den
                      /\ st.stdsq.num = 200 * st.stdsq.den
                      /\ st.vmin = 50
                      /\ st.vmax = 70

\* The run on the samples [50, 70] has printed mean 60.00 and std 14.14.
C6_Witness ==
    \E p \in Runs :
        /\ pc[p] = "exited"
        /\ values[p] = <<50, 70>>
        /\ stats[p] # <<>>
        /\ out[p][3].number = [nan |-> FALSE, hundredths |-> 6000]
        /\ out[p][4].number = [nan |-> FALSE, hundredths |-> 1414]

\* C7: with exactly one sample the standard deviation is not-a-number, never
\* a finite value; the run still exits with status 0 and prints mean, min and
\* max equal to the sample.
C7_SingleSample ==
    \A p \in Runs :
        (Returned(p) /\ Len(values[p]) = 1) =>
            LET x == Fmt2(Frac(values[p][1]))
            IN  /\ stats[p] # <<>> => stats[p][1].stdsq.nan
                /\ pc[p] = "exited" =>
                      /\ exit[p] = <<0>>
                      /\ out[p][3] = [text |-> "Mean:", number |-> x, unit |-> "ms"]
                      /\ out[p][4].text = "Std Dev:"
                      /\ out[p][4].number.nan
                      /\ out[p][5] = [text |-> "Min:", number |-> x, unit |-> "ms"]
                      /\ out[p][6] = [text |-> "Max:", number |-> x, unit |-> "ms"]
                      /\ x = [nan |-> FALSE, hundredths |-> 100 * values[p][1]]

\* A run on one valid row has ended with status 0 and a not-a-number std.
C7_Witness ==
    \E p \in Runs :
        /\ Returned(p)
        /\ pc[p] = "exited"
        /\ FileOf(p).lines = <<PaddedRow>>
        /\ values[p] = <<64>>
        /\ exit[p] = <<0>>
        /\ out[p][4].number.nan

\* The calls of a complete run on a text file of n lines.
FullRun(n) == <<"open">> \o [i \in 1..n |-> "line"] \o <<"close", "compute", "print">>

\* s is an initial part of t.
IsPrefix(s, t) == Len(s) <= Len(t) /\ SubSeq(t, 1, Len(s)) = s

\* C8: a run that opens its file makes its calls in the order open, one read
\* per line up to the end of the file, close, then the statistics; the file
\* is open only inside the reader's loop and is closed on every way out of
\* it, before any statistic is computed; no line ends the read early.
C8_OpenReadCloseCompute ==
    \A p \in Runs :
        Opened(p) =>
            /\ FileOf(p).decodable =>
                  IsPrefix(events[p], FullRun(Len(FileOf(p).lines)))
            /\ ~FileOf(p).decodable => IsPrefix(events[p], <<"open", "close">>)
            /\ handle[p] = "open" <=> pc[p] = "loop"
            /\ pc[p] # "loop" => handle[p] = "closed"
            /\ stats[p] # <<>> => handle[p] = "closed"

\* A run over three lines, one of them non-numeric, has made every call.
C8_Witness ==
    \E p \in Runs :
        /\ Returned(p)
        /\ pc[p] = "exited"
        /\ FileOf(p).lines = <<NonNumericRow, RowA, ShortRow>>
        /\ events[p] = <<"open", "line", "line", "line", "close", "compute", "print">>
        /\ handle[p] = "closed"

\* ------------------------------------- properties of the interleaved runs

\* C9: under every interleaving of two invocations, on one file or on two,
\* each holds at every step what it holds when run alone on the lines it has
\* read, and returns what it returns alone; two invocations on the same file
\* return the same sequence.
C9_InvocationsIndependent ==
    /\ \A p \in Runs :
          (Opened(p) /\ FileOf(p).decodable) =>
              /\ values[p] = read_batch_readiness_times(SubSeq(FileOf(p).lines, 1, idx[p]))
              /\ Returned(p) => values[p] = read_batch_readiness_times(FileOf(p).lines)
    /\ \A p, q \in Runs :
          (Returned(p) /\ Returned(q) /\ argv[p] = argv[q]) =>
              values[p] = values[q]

\* Run 2 has opened, read and returned the file while run 1, on the same
\* file, is between its two lines.
C9_Witness ==
    /\ Runs = {1, 2}
    /\ argv[1] = <<MetricsPath>>
    /\ argv[2] = <<MetricsPath>>
    /\ disk[MetricsPath].lines = <<RowA, RowB>>
    /\ pc[1] = "loop"
    /\ idx[1] = 1
    /\ values[1] = <<50>>
    /\ Returned(2)
    /\ values[2] = <<50, 70>>

\* ------------------------------------------- properties of the chart scripts

\* The bar b of figure i is the table's entry: its height is the mean, its
\* error bar has the extents max(mean - min, 0) and max(max - mean, 0), none
\* negative, and spans from the entry's min to its max.
BarIsEntry(b, i) ==
    LET e == Table(script)[b.uc][b.platform]
        below == IF e.mean[i] - e.min[i] > 0 THEN e.mean[i] - e.min[i] ELSE 0
        above == IF e.max[i] - e.mean[i] > 0 THEN e.max[i] - e.mean[i] ELSE 0
    IN  /\ b.height = e.mean[i]
        /\ b.yerr = <<below, above>>
        /\ b.yerr[1] >= 0
        /\ b.yerr[2] >= 0
        /\ b.height - b.yerr[1] = e.min[i]
        /\ b.height + b.yerr[2] = e.max[i]

\* The (use case, platform) pairs of the bars.
BarKeys(bs) == {<<bs[k].uc, bs[k].platform>> : k \in 1..Len(bs)}

\* C10: in both scripts every bar drawn, for every pod count, use case and
\* platform, is the table's entry with its clipped min/max extents; every
\* entry of the tables has min <= mean <= max, so no extent is clipped and
\* the error bar spans exactly min..max; a saved figure holds one bar per use
\* case and platform.
C10_ErrorBarsSpanMinMax ==
    /\ \A sc \in Scripts : \A u \in DOMAIN Table(sc) :
          \A pf \in DOMAIN Table(sc)[u] : \A i \in 1..Len(pod_counts) :
              LET e == Table(sc)[u][pf]
              IN  e.min[i] <= e.mean[i] /\ e.mean[i] <= e.max[i]
    /\ \A k \in 1..Len(bars) : BarIsEntry(bars[k], fig)
    /\ \A f \in 1..Len(saved) :
          /\ saved[f].pod = pod_counts[f]
          /\ Len(saved[f].bars) = Len(ucs) * Len(Platforms)
          /\ BarKeys(saved[f].bars)
                = {<<ucs[u], Platforms[j]>> :
                      u \in 1..Len(ucs), j \in 1..Len(Platforms)}
          /\ \A k \in 1..Len(saved[f].bars) : BarIsEntry(saved[f].bars[k], f)

\* The deletion script has saved its four figures; the last holds CODECO's
\* UC9 bar at 150 pods, 12008 with extents 506 below and 521 above.
C10_Witness ==
    /\ script = "delete"
    /\ Len(saved) = 4
    /\ \E k \in 1..Len(saved[4].bars) :
          /\ saved[4].bars[k].uc = "UC9"
          /\ saved[4].bars[k].platform = "CODECO"
          /\ saved[4].bars[k].height = 12008
          /\ saved[4].bars[k].yerr = <<506, 521>>

=============================================================================
